---- MODULE Spec2Model ----
(***************************************************************************)
(* OmniVision ov9282 sensor driver: the power sequence of src/ov9282.c,    *)
(* the probe / remove / runtime-PM life cycle of src/duzenle.c, and the   *)
(* sequencer, register protocol and control surface of spec.md sections    *)
(* 4.1-4.4, whose code (ov9282_detect, ov9282_init_controls, the subdev    *)
(* operations) is called or declared by the sources but not part of them.  *)
(***************************************************************************)
EXTENDS Integers, Sequences, FiniteSets, TLC

VARIABLES state, inclk, cur_mode, vblank, exposure, gain, hw_hold,
          op, arg, ret, trace, fail_step, prev_state, prev_pm, rt,
          bound, pm_status, pm_enabled

vars == <<state, inclk, cur_mode, vblank, exposure, gain, hw_hold,
          op, arg, ret, trace, fail_step, prev_state, prev_pm, rt,
          bound, pm_status, pm_enabled>>

(* ------------------------- register map ------------------------------ *)
OV9282_REG_MODE_SELECT == 256
OV9282_MODE_STANDBY == 0
OV9282_MODE_STREAMING == 1
OV9282_REG_LPFR == 14350
OV9282_REG_ID == 12298
OV9282_ID_Swapped == 129 * 256 + 146
OV9282_ID == 37505
OV9282_REG_EXPOSURE == 13568
OV9282_EXPOSURE_MIN == 1
OV9282_EXPOSURE_OFFSET_Short == 12 - 1
OV9282_EXPOSURE_OFFSET == 12
OV9282_EXPOSURE_DEFAULT == 642
OV9282_REG_AGAIN == 13577
OV9282_AGAIN_MIN == 16
OV9282_AGAIN_MAX == 255
OV9282_AGAIN_DEFAULT == 16
OV9282_REG_HOLD_Typo == 13064 + 1
OV9282_REG_HOLD == 13064
OV9282_REG_MIN == 0
OV9282_REG_MAX == 1048575

(* the 99 <<address, value>> entries of the 1280x720 register list *)
mode_1280x720_regs == <<
    <<770, 50>>, <<781, 80>>, <<782, 2>>, <<12289, 0>>, <<12292, 0>>,
    <<12293, 0>>, <<12294, 4>>, <<12305, 10>>, <<12307, 24>>, <<12316,
    240>>, <<12322, 1>>, <<12336, 16>>, <<12345, 50>>, <<12346, 0>>,
    <<13568, 0>>, <<13569, 95>>, <<13570, 30>>, <<13571, 8>>, <<13573,
    140>>, <<13575, 3>>, <<13576, 0>>, <<13577, 16>>, <<13840, 128>>,
    <<13841, 160>>, <<13856, 110>>, <<13874, 86>>, <<13875, 120>>,
    <<13926, 0>>, <<13935, 90>>, <<13952, 132>>, <<14098, 128>>, <<14125,
    34>>, <<14129, 128>>, <<14130, 48>>, <<14200, 0>>, <<14205, 34>>,
    <<14216, 2>>, <<14217, 164>>, <<14218, 0>>, <<14219, 74>>, <<14233,
    32>>, <<14336, 0>>, <<14337, 0>>, <<14338, 0>>, <<14339, 0>>, <<14340,
    5>>, <<14341, 15>>, <<14342, 2>>, <<14343, 223>>, <<14344, 5>>,
    <<14345, 0>>, <<14346, 2>>, <<14347, 208>>, <<14348, 5>>, <<14349,
    250>>, <<14350, 6>>, <<14351, 206>>, <<14352, 0>>, <<14353, 8>>,
    <<14354, 0>>, <<14355, 8>>, <<14356, 17>>, <<14357, 17>>, <<14368,
    60>>, <<14369, 132>>, <<14465, 66>>, <<14504, 2>>, <<14505, 128>>,
    <<14513, 0>>, <<14532, 0>>, <<14533, 192>>, <<14534, 4>>, <<14535,
    128>>, <<14624, 255>>, <<16387, 64>>, <<16392, 2>>, <<16393, 5>>,
    <<16396, 0>>, <<16397, 3>>, <<16400, 64>>, <<16451, 64>>, <<17159,
    48>>, <<17175, 0>>, <<17665, 0>>, <<17671, 0>>, <<17673, 128>>,
    <<17674, 8>>, <<17921, 4>>, <<18191, 0>>, <<20231, 0>>, <<18432, 32>>,
    <<20480, 159>>, <<20481, 0>>, <<24064, 0>>, <<23808, 7>>, <<23809,
    0>>, <<257, 1>>, <<4096, 3>>, <<23048, 132>>
  >>

supported_mode_BadDefault ==
  [width |-> 1280, height |-> 720, hblank |-> 250, vblank |-> 150,
   vblank_min |-> 151, vblank_max |-> 51540, pclk |-> 160000000,
   link_freq_idx |-> 0, reg_list |-> mode_1280x720_regs]

supported_mode ==
  [width |-> 1280, height |-> 720, hblank |-> 250, vblank |-> 1022,
   vblank_min |-> 151, vblank_max |-> 51540, pclk |-> 160000000,
   link_freq_idx |-> 0, reg_list |-> mode_1280x720_regs]

(* cur_mode is a pointer: "NULL" after kzalloc, else "supported_mode" *)
ModeCatalog == [supported_mode |-> supported_mode]
Mode(p) == ModeCatalog[p]
default_mode == "supported_mode"

(* ------------------------- results and events ------------------------ *)
Result(kind, x, y) == [kind |-> kind, x |-> x, y |-> y]
Ok == Result("Ok", 0, 0)

(* one externally visible step of an operation *)
Ev(ev, addr, val, ok) == [ev |-> ev, addr |-> addr, val |-> val, ok |-> ok]

Min(a, b) == IF a < b THEN a ELSE b

IsDisable(e) == e.ev = "clk_disable_unprepare"

(* ------------------------- power sequence ---------------------------- *)
(* clk_ret is what clk_prepare_enable returns; it leaves the clock        *)
(* unprepared and disabled whenever it returns an error.                  *)
ov9282_power_on_LeakClk(clk, clk_ret) ==
  [ret |-> clk_ret, inclk |-> clk + 1,
   trace |-> IF clk_ret = 0
             THEN <<Ev("usleep_range", 400, 600, TRUE),
                    Ev("clk_prepare_enable", 0, clk, TRUE),
                    Ev("usleep_range", 400, 600, TRUE)>>
             ELSE <<Ev("usleep_range", 400, 600, TRUE),
                    Ev("clk_prepare_enable", 0, clk, FALSE)>>]

ov9282_power_on_SkipClk(clk, clk_ret) ==
  IF clk_ret # 0
  THEN [ret |-> clk_ret, inclk |-> clk,
        trace |-> <<Ev("usleep_range", 400, 600, TRUE),
                    Ev("clk_prepare_enable", 0, clk, FALSE)>>]
  ELSE [ret |-> 0, inclk |-> clk,
        trace |-> <<Ev("usleep_range", 400, 600, TRUE),
                    Ev("usleep_range", 400, 600, TRUE)>>]

ov9282_power_on(clk, clk_ret) ==
  IF clk_ret # 0
  THEN [ret |-> clk_ret, inclk |-> clk,
        trace |-> <<Ev("usleep_range", 400, 600, TRUE),
                    Ev("clk_prepare_enable", 0, clk, FALSE)>>]
  ELSE [ret |-> 0, inclk |-> clk + 1,
        trace |-> <<Ev("usleep_range", 400, 600, TRUE),
                    Ev("clk_prepare_enable", 0, clk, TRUE),
                    Ev("usleep_range", 400, 600, TRUE)>>]

(* clk_disable_unprepare on a clock whose count is already 0 warns and    *)
(* leaves the count at 0: the event is recorded with ok = FALSE.          *)
ov9282_power_off_KeepClk(clk) ==
  [ret |-> 0, inclk |-> clk,
   trace |-> <<Ev("clk_disable_unprepare", 0, clk, clk > 0)>>]

ov9282_power_off(clk) ==
  [ret |-> 0, inclk |-> IF clk > 0 THEN clk - 1 ELSE 0,
   trace |-> <<Ev("clk_disable_unprepare", 0, clk, clk > 0)>>]

(* ------------------------- register access --------------------------- *)
(* bus_ok is the transport's answer; an address outside the legal range   *)
(* fails without touching the bus.                                        *)
write_reg(addr, val, bus_ok) ==
  IF addr < OV9282_REG_MIN \/ addr > OV9282_REG_MAX
  THEN [res |-> Result("InvalidAddress", addr, 0), trace |-> <<>>]
  ELSE IF bus_ok
       THEN [res |-> Ok, trace |-> <<Ev("write", addr, val, TRUE)>>]
       ELSE [res |-> Result("BusError", addr, 0),
             trace |-> <<Ev("write", addr, val, FALSE)>>]

(* entries i, i+1, ... (0-based) of regs; the bus fails on entry k        *)
RECURSIVE write_burst_from(_, _, _)
write_burst_from(regs, i, k) ==
  IF i >= Len(regs)
  THEN [res |-> Ok, trace |-> <<>>]
  ELSE LET w == write_reg(regs[i + 1][1], regs[i + 1][2], i # k)
       IN IF w.res.kind # "Ok"
          THEN [res |-> Result("PartialBurstFailure", i - 1, 0),
                trace |-> w.trace]
          ELSE LET rest == write_burst_from(regs, i + 1, k)
               IN [res |-> rest.res, trace |-> w.trace \o rest.trace]

write_burst_NoStop(regs, k) ==
  LET all == [i \in 1..Len(regs) |->
                Ev("write", regs[i][1], regs[i][2], i - 1 # k)]
  IN [res |-> IF k < Len(regs) THEN Result("PartialBurstFailure", k - 1, 0)
              ELSE Ok,
      trace |-> all]

write_burst(regs, k) == write_burst_from(regs, 0, k)

(* 16-bit identity read: the device sends the high byte first *)
read_id_bytes(dev_id) == <<dev_id \div 256, dev_id % 256>>
decode_be16(bytes) == bytes[1] * 256 + bytes[2]

ov9282_detect(read_ok, dev_id) ==
  IF ~read_ok
  THEN [res |-> Result("BusError", OV9282_REG_ID, 0),
        trace |-> <<Ev("read", OV9282_REG_ID, dev_id, FALSE)>>]
  ELSE LET val == decode_be16(read_id_bytes(dev_id))
       IN [res |-> IF val = OV9282_ID THEN Ok
                   ELSE Result("IdentityMismatch", OV9282_ID, val),
           trace |-> <<Ev("read", OV9282_REG_ID, dev_id, TRUE)>>]

Errno(res) ==
  CASE res.kind = "Ok" -> 0
    [] res.kind = "IdentityMismatch" -> -6
    [] OTHER -> -5

(* ------------------------- control surface --------------------------- *)
exposure_max(vb) == vb - OV9282_EXPOSURE_OFFSET

(* the cached values after the active mode was (re)selected: vblank is    *)
(* the mode's default and the exposure range is recomputed from it        *)
update_controls(p, first, exp, gn) ==
  LET vb == Mode(p).vblank
  IN [cur_mode |-> p, vblank |-> vb,
      exposure |-> IF first THEN OV9282_EXPOSURE_DEFAULT
                   ELSE Min(exp, exposure_max(vb)),
      gain |-> IF first THEN OV9282_AGAIN_DEFAULT ELSE gn]

set_vblank(p, vb, exp, V, bus_ok) ==
  LET m == Mode(p)
      w == write_reg(OV9282_REG_LPFR, V + m.height, bus_ok)
  IN IF V < m.vblank_min \/ V > m.vblank_max
     THEN [res |-> Result("OutOfRange", V, 0), trace |-> <<>>,
           vblank |-> vb, exposure |-> exp]
     ELSE IF w.res.kind # "Ok"
          THEN [res |-> w.res, trace |-> w.trace,
                vblank |-> vb, exposure |-> exp]
          ELSE [res |-> Ok, trace |-> w.trace,
                vblank |-> V, exposure |-> Min(exp, exposure_max(V))]

(* group-hold commit of exposure e and gain g; fails is the set of the    *)
(* bracket's writes on which the bus fails                                *)
update_exp_gain(vb, exp, gn, hold, e, g, fails) ==
  LET val == Min(e, exposure_max(vb))
      w1 == write_reg(OV9282_REG_HOLD, 1, "hold" \notin fails)
      w2 == write_reg(OV9282_REG_EXPOSURE, val, "exposure" \notin fails)
      w3 == write_reg(OV9282_REG_AGAIN, g, "gain" \notin fails)
      w4 == write_reg(OV9282_REG_HOLD, 0, "release" \notin fails)
      inner == IF w2.res.kind # "Ok" THEN w2.trace
               ELSE w2.trace \o w3.trace
      inner_ok == w2.res.kind = "Ok" /\ w3.res.kind = "Ok"
  IN IF e < OV9282_EXPOSURE_MIN
     THEN [res |-> Result("OutOfRange", e, 0), trace |-> <<>>,
           exposure |-> exp, gain |-> gn, hw_hold |-> hold]
     ELSE IF g < OV9282_AGAIN_MIN \/ g > OV9282_AGAIN_MAX
     THEN [res |-> Result("OutOfRange", g, 0), trace |-> <<>>,
           exposure |-> exp, gain |-> gn, hw_hold |-> hold]
     ELSE IF w1.res.kind # "Ok"
     THEN [res |-> Result("ControlCommitFailed", OV9282_REG_HOLD, 0),
           trace |-> w1.trace,
           exposure |-> exp, gain |-> gn, hw_hold |-> hold]
     ELSE IF inner_ok /\ w4.res.kind = "Ok"
     THEN [res |-> Ok, trace |-> w1.trace \o inner \o w4.trace,
           exposure |-> val, gain |-> g, hw_hold |-> 0]
     ELSE [res |-> Result("ControlCommitFailed",
                          IF inner_ok THEN OV9282_REG_HOLD
                          ELSE inner[Len(inner)].addr, 0),
           trace |-> w1.trace \o inner \o w4.trace,
           exposure |-> exp, gain |-> gn,
           hw_hold |-> IF w4.res.kind = "Ok" THEN 0 ELSE 1]

(* ------------------------- sequencer operations ---------------------- *)
lookup(key) ==
  IF key \in DOMAIN ModeCatalog THEN Ok
  ELSE Result("UnsupportedMode", 0, 0)

start_streaming_NoCheck(st, bus_ok) ==
  LET w == write_reg(OV9282_REG_MODE_SELECT, OV9282_MODE_STREAMING, bus_ok)
  IN [res |-> w.res, trace |-> w.trace,
      state |-> IF w.res.kind = "Ok" THEN "Streaming" ELSE st]

start_streaming(st, bus_ok) ==
  LET w == write_reg(OV9282_REG_MODE_SELECT, OV9282_MODE_STREAMING, bus_ok)
  IN IF st # "Standby"
     THEN [res |-> Result("StateViolation", 0, 0), trace |-> <<>>,
           state |-> st]
     ELSE [res |-> w.res, trace |-> w.trace,
           state |-> IF w.res.kind = "Ok" THEN "Streaming" ELSE st]

stop_streaming(st, bus_ok) ==
  LET w == write_reg(OV9282_REG_MODE_SELECT, OV9282_MODE_STANDBY, bus_ok)
  IN IF st = "Standby"
     THEN [res |-> Ok, trace |-> <<>>, state |-> st]
     ELSE [res |-> w.res, trace |-> w.trace,
           state |-> IF w.res.kind = "Ok" THEN "Standby" ELSE st]

(* ------------------------- input domains ----------------------------- *)
(* number of leading entries of a mode's register list that load_mode     *)
(* is followed through                                                    *)
BurstLen == 3
burst(m) == SubSeq(m.reg_list, 1, BurstLen)
ClkRets == {0, -16}
IdInputs == {37505, 33170, 37506, 0}
ModeKeys == {"supported_mode", "unknown"}
VblankInputs == {150, 151, 1022, 51540, 51541}
ExposureInputs == {0, 1, 140, 1011, 51529}
GainInputs == {15, 255, 256}
BracketWrites == {"hold", "exposure", "gain", "release"}

(* ------------------------- scenario bookkeeping ---------------------- *)
RoundTrip == <<"power_on", "detect_and_verify", "load_mode",
               "start_streaming", "stop_streaming", "power_off">>
RoundTripStates == <<"PoweredUnverified", "PoweredVerified", "Standby",
                     "Streaming", "Standby", "Off">>

(* length of the prefix of RoundTrip that the calls made so far, each     *)
(* without an injected failure, have completed                            *)
NextRt(name, clean) ==
  IF clean /\ rt < Len(RoundTrip) /\ RoundTrip[IF rt < 6 THEN rt + 1 ELSE 6] = name
  THEN rt + 1
  ELSE IF clean /\ name = "power_on" THEN 1 ELSE 0

(* what the last operation was called with and what it started from *)
Called(name, a) ==
  /\ op' = name
  /\ arg' = a
  /\ prev_state' = state
  /\ prev_pm' = pm_status

CtrlReady ==
  IF bound THEN pm_status = "active" /\ cur_mode # "NULL"
  ELSE state \in {"Standby", "Streaming"}

Init ==
  /\ state = "Off"
  /\ inclk = 0
  /\ cur_mode = "NULL"
  /\ vblank = 0
  /\ exposure = 0
  /\ gain = 0
  /\ hw_hold = 0
  /\ op = "init"
  /\ arg = 0
  /\ prev_state = "Off"
  /\ prev_pm = "suspended"
  /\ ret = Ok
  /\ trace = <<>>
  /\ fail_step = ""
  /\ rt = 0
  /\ bound = FALSE
  /\ pm_status = "suspended"
  /\ pm_enabled = FALSE

(* ------------------------- sequencer actions ------------------------- *)
(* ov9282_power_on itself has no guard; it is called only with the clock  *)
(* off (by probe on a fresh device and by runtime resume of a suspended   *)
(* one), which is the sequencer's Off state.  The delays cannot fail, so  *)
(* the only failing step is the clock enable.                             *)
PowerOn(clk_ret) ==
  /\ ~bound
  /\ state = "Off"
  /\ LET r == ov9282_power_on(inclk, clk_ret)
     IN /\ inclk' = r.inclk
        /\ trace' = r.trace
        /\ state' = IF r.ret = 0 THEN "PoweredUnverified" ELSE state
        /\ ret' = IF r.ret = 0 THEN Ok
                  ELSE Result("PowerSequenceFailed", r.ret, 0)
        /\ fail_step' = IF r.ret = 0 THEN "" ELSE "clk_enable"
  /\ Called("power_on", 0)
  /\ rt' = NextRt("power_on", clk_ret = 0)
  /\ UNCHANGED <<cur_mode, vblank, exposure, gain, hw_hold,
                 bound, pm_status, pm_enabled>>

(* ov9282_power_off has no guard either and is offered in every state *)
PowerOff ==
  /\ ~bound
  /\ LET r == ov9282_power_off(inclk)
     IN /\ inclk' = r.inclk
        /\ trace' = r.trace
        /\ ret' = IF r.ret = 0 THEN Ok
                  ELSE Result("PowerSequenceFailed", r.ret, 0)
  /\ state' = "Off"
  /\ Called("power_off", 0)
  /\ fail_step' = ""
  /\ rt' = NextRt("power_off", TRUE)
  /\ UNCHANGED <<cur_mode, vblank, exposure, gain, hw_hold,
                 bound, pm_status, pm_enabled>>

DetectAndVerify(read_ok, dev_id) ==
  /\ ~bound
  /\ state = "PoweredUnverified"
  /\ LET r == ov9282_detect(read_ok, dev_id)
     IN /\ ret' = r.res
        /\ trace' = r.trace
        /\ state' = IF r.res.kind = "Ok" THEN "PoweredVerified" ELSE state
  /\ Called("detect_and_verify", 0)
  /\ fail_step' = ""
  /\ rt' = NextRt("detect_and_verify", read_ok /\ dev_id = 37505)
  /\ UNCHANGED <<inclk, cur_mode, vblank, exposure, gain, hw_hold,
                 bound, pm_status, pm_enabled>>

LoadMode(key, k) ==
  /\ ~bound
  /\ state \in {"PoweredVerified", "Standby"}
  /\ IF lookup(key).kind # "Ok"
     THEN /\ ret' = lookup(key)
          /\ trace' = <<>>
          /\ UNCHANGED <<state, cur_mode, vblank, exposure, gain>>
     ELSE LET r == write_burst(burst(Mode(key)), k)
              c == update_controls(key, cur_mode = "NULL", exposure, gain)
          IN /\ ret' = r.res
             /\ trace' = r.trace
             /\ IF r.res.kind = "Ok"
                THEN /\ state' = "Standby"
                     /\ cur_mode' = c.cur_mode
                     /\ vblank' = c.vblank
                     /\ exposure' = c.exposure
                     /\ gain' = c.gain
                ELSE UNCHANGED <<state, cur_mode, vblank, exposure, gain>>
  /\ Called("load_mode", 0)
  /\ fail_step' = ""
  /\ rt' = NextRt("load_mode",
                  key = default_mode /\ k >= BurstLen)
  /\ UNCHANGED <<inclk, hw_hold, bound, pm_status, pm_enabled>>

StartStreaming(bus_ok) ==
  /\ ~bound
  /\ LET r == start_streaming(state, bus_ok)
     IN /\ ret' = r.res
        /\ trace' = r.trace
        /\ state' = r.state
  /\ Called("start_streaming", 0)
  /\ fail_step' = ""
  /\ rt' = NextRt("start_streaming", bus_ok)
  /\ UNCHANGED <<inclk, cur_mode, vblank, exposure, gain, hw_hold,
                 bound, pm_status, pm_enabled>>

StopStreaming(bus_ok) ==
  /\ ~bound
  /\ state \in {"Standby", "Streaming"}
  /\ LET r == stop_streaming(state, bus_ok)
     IN /\ ret' = r.res
        /\ trace' = r.trace
        /\ state' = r.state
  /\ Called("stop_streaming", 0)
  /\ fail_step' = ""
  /\ rt' = NextRt("stop_streaming", bus_ok)
  /\ UNCHANGED <<inclk, cur_mode, vblank, exposure, gain, hw_hold,
                 bound, pm_status, pm_enabled>>

SetVblank(V, bus_ok) ==
  /\ CtrlReady
  /\ LET r == set_vblank(cur_mode, vblank, exposure, V, bus_ok)
     IN /\ ret' = r.res
        /\ trace' = r.trace
        /\ vblank' = r.vblank
        /\ exposure' = r.exposure
  /\ Called("set_vblank", V)
  /\ fail_step' = ""
  /\ rt' = 0
  /\ UNCHANGED <<state, inclk, cur_mode, gain, hw_hold,
                 bound, pm_status, pm_enabled>>

SetExposureGain(e, g, fails) ==
  /\ CtrlReady
  /\ LET r == update_exp_gain(vblank, exposure, gain, hw_hold, e, g, fails)
     IN /\ ret' = r.res
        /\ trace' = r.trace
        /\ exposure' = r.exposure
        /\ gain' = r.gain
        /\ hw_hold' = r.hw_hold
  /\ Called("set_exposure_gain", e)
  /\ fail_step' = ""
  /\ rt' = 0
  /\ UNCHANGED <<state, inclk, cur_mode, vblank,
                 bound, pm_status, pm_enabled>>

Next ==
  \/ \E c \in ClkRets : PowerOn(c)
  \/ PowerOff
  \/ \E b \in BOOLEAN, d \in IdInputs : DetectAndVerify(b, d)
  \/ \E key \in ModeKeys, k \in 0..BurstLen : LoadMode(key, k)
  \/ \E b \in BOOLEAN : StartStreaming(b)
  \/ \E b \in BOOLEAN : StopStreaming(b)
  \/ \E V \in VblankInputs, b \in BOOLEAN : SetVblank(V, b)
  \/ \E e \in ExposureInputs, g \in GainInputs, f \in SUBSET BracketWrites :
       SetExposureGain(e, g, f)

Spec == Init /\ [][Next]_vars

(* ------------------------- driver life cycle ------------------------- *)
HwRets == {0, -22}
CtrlRets == {0, -34}
PadsRets == {0, -7}
AsyncRets == {0, -19}
ProbeInputs ==
  [alloc_ok : BOOLEAN, hw_ret : HwRets, clk_ret : ClkRets,
   read_ok : BOOLEAN, dev_id : {37505, 33170}, ctrl_ret : CtrlRets,
   pads_ret : PadsRets, async_ret : AsyncRets, idle : BOOLEAN]

(* the device structure is devm-allocated: a failed probe frees it *)
probe_failed(errno, step, tr, clk) ==
  [ret |-> errno, fail_step |-> step, trace |-> tr, inclk |-> clk,
   bound |-> FALSE, pm_status |-> "suspended", pm_enabled |-> FALSE,
   cur_mode |-> "NULL", vblank |-> 0, exposure |-> 0, gain |-> 0,
   state |-> "Off"]

ov9282_probe(clk, i) ==
  LET on == ov9282_power_on(clk, i.clk_ret)
      det == ov9282_detect(i.read_ok, i.dev_id)
      off == ov9282_power_off(on.inclk)
      error_power_off(errno, step, tr) ==
        probe_failed(errno, step, tr \o off.trace, off.inclk)
  IN IF ~i.alloc_ok
     THEN probe_failed(-12, "kzalloc", <<>>, clk)
     ELSE IF i.hw_ret # 0
     THEN probe_failed(i.hw_ret, "parse_hw_config", <<>>, clk)
     ELSE IF on.ret # 0
     THEN probe_failed(on.ret, "power_on", on.trace, on.inclk)
     ELSE IF det.res.kind # "Ok"
     THEN error_power_off(Errno(det.res), "detect", on.trace \o det.trace)
     ELSE IF i.ctrl_ret # 0
     THEN error_power_off(i.ctrl_ret, "init_controls",
                          on.trace \o det.trace)
     ELSE IF i.pads_ret # 0
     THEN error_power_off(i.pads_ret, "pads_init", on.trace \o det.trace)
     ELSE IF i.async_ret < 0
     THEN error_power_off(i.async_ret, "async_register",
                          on.trace \o det.trace)
     ELSE [ret |-> 0, fail_step |-> "",
           trace |-> on.trace \o det.trace
                     \o (IF i.idle THEN off.trace ELSE <<>>),
           inclk |-> IF i.idle THEN off.inclk ELSE on.inclk,
           bound |-> TRUE,
           pm_status |-> IF i.idle THEN "suspended" ELSE "active",
           pm_enabled |-> TRUE,
           cur_mode |-> "supported_mode",
           vblank |-> supported_mode.vblank,
           exposure |-> OV9282_EXPOSURE_DEFAULT,
           gain |-> OV9282_AGAIN_DEFAULT,
           state |-> IF i.idle THEN "Off" ELSE "PoweredVerified"]

ov9282_remove_Always(clk, status) ==
  LET off == ov9282_power_off(clk)
  IN [ret |-> 0, trace |-> off.trace, inclk |-> off.inclk]

ov9282_remove(clk, status) ==
  LET off == ov9282_power_off(clk)
  IN IF status # "suspended"
     THEN [ret |-> 0, trace |-> off.trace, inclk |-> off.inclk]
     ELSE [ret |-> 0, trace |-> <<>>, inclk |-> clk]

Errc(n) == Result(IF n = 0 THEN "Ok" ELSE "Error", n, 0)

Probe(i) ==
  /\ ~bound
  /\ state = "Off"
  /\ LET r == ov9282_probe(inclk, i)
     IN /\ ret' = Errc(r.ret)
        /\ fail_step' = r.fail_step
        /\ trace' = r.trace
        /\ inclk' = r.inclk
        /\ bound' = r.bound
        /\ pm_status' = r.pm_status
        /\ pm_enabled' = r.pm_enabled
        /\ cur_mode' = r.cur_mode
        /\ vblank' = r.vblank
        /\ exposure' = r.exposure
        /\ gain' = r.gain
        /\ state' = r.state
  /\ Called("probe", 0)
  /\ UNCHANGED <<hw_hold, rt>>

RuntimeSuspend ==
  /\ bound /\ pm_enabled /\ pm_status = "active"
  /\ LET r == ov9282_power_off(inclk)
     IN /\ ret' = Errc(r.ret)
        /\ trace' = r.trace
        /\ inclk' = r.inclk
        /\ pm_status' = IF r.ret = 0 THEN "suspended" ELSE pm_status
  /\ state' = "Off"
  /\ Called("runtime_suspend", 0)
  /\ fail_step' = ""
  /\ UNCHANGED <<cur_mode, vblank, exposure, gain, hw_hold, rt,
                 bound, pm_enabled>>

RuntimeResume(clk_ret) ==
  /\ bound /\ pm_enabled /\ pm_status = "suspended"
  /\ LET r == ov9282_power_on(inclk, clk_ret)
     IN /\ ret' = Errc(r.ret)
        /\ trace' = r.trace
        /\ inclk' = r.inclk
        /\ pm_status' = IF r.ret = 0 THEN "active" ELSE pm_status
        /\ state' = IF r.ret = 0 THEN "PoweredUnverified" ELSE state
        /\ fail_step' = IF r.ret = 0 THEN "" ELSE "clk_enable"
  /\ Called("runtime_resume", 0)
  /\ UNCHANGED <<cur_mode, vblank, exposure, gain, hw_hold, rt,
                 bound, pm_enabled>>

Remove ==
  /\ bound
  /\ LET r == ov9282_remove(inclk, pm_status)
     IN /\ ret' = Errc(r.ret)
        /\ trace' = r.trace
        /\ inclk' = r.inclk
  /\ pm_enabled' = FALSE
  /\ pm_status' = "suspended"
  /\ bound' = FALSE
  /\ state' = "Off"
  /\ cur_mode' = "NULL"
  /\ vblank' = 0
  /\ exposure' = 0
  /\ gain' = 0
  /\ Called("remove", 0)
  /\ fail_step' = ""
  /\ UNCHANGED <<hw_hold, rt>>

NextDriver ==
  \/ \E i \in ProbeInputs : Probe(i)
  \/ RuntimeSuspend
  \/ \E c \in ClkRets : RuntimeResume(c)
  \/ Remove
  \/ \E V \in VblankInputs, b \in BOOLEAN : SetVblank(V, b)
  \/ \E e \in ExposureInputs, g \in GainInputs, f \in SUBSET BracketWrites :
       SetExposureGain(e, g, f)

SpecDriver == Init /\ [][NextDriver]_vars

(* ===================================================================== *)
(* Properties                                                            *)
(* ===================================================================== *)
EvNames(t) == [i \in 1..Len(t) |-> t[i].ev]
Disables(t) == Cardinality({i \in 1..Len(t) : IsDisable(t[i])})

(* C1: power_on() from Off performs settle delay, clock enable, settle    *)
(* delay in that order and ends in PoweredUnverified; when the clock      *)
(* enable fails the second delay is not performed, the error is returned, *)
(* the state stays Off and the input clock is not left enabled.           *)
C1_PowerOnSequence ==
  op = "power_on" =>
    /\ prev_state = "Off"
    /\ Len(trace) >= 2
    /\ trace[2].ev = "clk_prepare_enable"
    /\ trace[2].ok =>
         /\ EvNames(trace) = <<"usleep_range", "clk_prepare_enable",
                               "usleep_range">>
         /\ ret = Ok
         /\ state = "PoweredUnverified"
         /\ inclk = 1
    /\ ~trace[2].ok =>
         /\ EvNames(trace) = <<"usleep_range", "clk_prepare_enable">>
         /\ ret.kind = "PowerSequenceFailed"
         /\ ret.x \in ClkRets \ {0}
         /\ fail_step = "clk_enable"
         /\ state = "Off"
         /\ inclk = 0

C1_Witness ==
  /\ op = "power_on"
  /\ ret.kind = "PowerSequenceFailed"
  /\ Len(trace) = 2
  /\ inclk = 0

(* C2: power_off() is enabled in every state of the sequencer, always     *)
(* returns success, and leaves the state at Off with the input clock      *)
(* disabled.                                                              *)
C2_PowerOffAlways ==
  /\ ENABLED PowerOff
  /\ op = "power_off" =>
       /\ ret = Ok
       /\ state = "Off"
       /\ inclk = 0

C2_Witness ==
  /\ op = "power_off"
  /\ prev_state = "Streaming"
  /\ state = "Off"
  /\ inclk = 0

(* C3: a detect_and_verify() that reads an identity other than 0x9281     *)
(* returns IdentityMismatch{expected = 0x9281, actual = value read}; the  *)
(* state remains PoweredUnverified and the sensor is not powered off.     *)
C3_IdentityMismatch ==
  (/\ op = "detect_and_verify"
   /\ trace[1].ok
   /\ trace[1].val # 37505) =>
    /\ ret = Result("IdentityMismatch", 37505, trace[1].val)
    /\ prev_state = "PoweredUnverified"
    /\ state = "PoweredUnverified"
    /\ Disables(trace) = 0
    /\ inclk = 1

C3_Witness ==
  /\ op = "detect_and_verify"
  /\ ret = Result("IdentityMismatch", 37505, 33170)
  /\ state = "PoweredUnverified"

(* C4: without bus or clock failure and with a matching identity, the     *)
(* calls power_on, detect_and_verify, load_mode(default_mode()),          *)
(* start_streaming, stop_streaming, power_off each succeed, pass through  *)
(* Off, PoweredUnverified, PoweredVerified, Standby, Streaming, Standby   *)
(* and end in Off with the clock disabled.                                *)
C4_RoundTrip ==
  rt > 0 =>
    /\ op = RoundTrip[rt]
    /\ ret = Ok
    /\ prev_state = (<<"Off">> \o RoundTripStates)[rt]
    /\ state = RoundTripStates[rt]
    /\ inclk = IF rt = Len(RoundTrip) THEN 0 ELSE 1

C4_Witness ==
  /\ rt = Len(RoundTrip)
  /\ op = "power_off"
  /\ state = "Off"

(* C5: start_streaming() in Off, PoweredUnverified or PoweredVerified     *)
(* (no mode loaded since power-on) fails with a state-machine violation:  *)
(* nothing is written to the mode-select register, the state is           *)
(* unchanged and success is not returned.                                 *)
C5_StartBeforeLoad ==
  (/\ op = "start_streaming"
   /\ prev_state \in {"Off", "PoweredUnverified", "PoweredVerified"}) =>
    /\ ret.kind = "StateViolation"
    /\ \A i \in 1..Len(trace) : trace[i].addr # 256
    /\ state = prev_state

C5_Witness ==
  /\ op = "start_streaming"
  /\ prev_state = "PoweredVerified"
  /\ ret.kind = "StateViolation"
  /\ state = "PoweredVerified"

(* the writes of the last commit that failed inside the bracket *)
InnerFailures ==
  {i \in 1..Len(trace) :
     /\ trace[i].addr \in {OV9282_REG_EXPOSURE, OV9282_REG_AGAIN}
     /\ ~trace[i].ok}

(* writes of 0 to the group-hold register (0x3308) *)
Releases ==
  {j \in 1..Len(trace) :
     /\ trace[j].ev = "write"
     /\ trace[j].addr = 13064
     /\ trace[j].val = 0}

ReleasedOnceAfterFailure ==
  /\ Cardinality(Releases) = 1
  /\ \A i \in InnerFailures : \A j \in Releases : j = i + 1 /\ j = Len(trace)
  /\ ret.kind = "ControlCommitFailed"

C7_BurstStopsAtFailure ==
  (op = "load_mode" /\ ret.kind # "UnsupportedMode") =>
    LET regs == burst(supported_mode)
        n == Len(trace)
    IN /\ n <= Len(regs)
       /\ \A i \in 1..n :
            /\ trace[i].ev = "write"
            /\ trace[i].addr = regs[i][1]
            /\ trace[i].val = regs[i][2]
       /\ \A i \in 1..(n - 1) : trace[i].ok
       /\ IF n > 0 /\ ~trace[n].ok
          THEN ret = Result("PartialBurstFailure", n - 2, 0)
          ELSE ret = Ok /\ n = Len(regs)

C7_Witness ==
  /\ op = "load_mode"
  /\ ret = Result("PartialBurstFailure", 0, 0)
  /\ Len(trace) = 2
  /\ ~trace[2].ok

(* C8: after vblank is successfully set to V within the mode's range the  *)
(* exposure maximum is V - 12; setting exposure above that maximum is not *)
(* rejected as out of range and, when the commit's writes reach the       *)
(* sensor, succeeds and stores exactly the maximum; the stored exposure   *)
(* always lies in [min_exposure, vblank - 12].                            *)
C8_ExposureTracksVblank ==
  cur_mode # "NULL" =>
    /\ exposure >= OV9282_EXPOSURE_MIN
    /\ exposure <= vblank - 12
    /\ (op = "set_vblank" /\ ret = Ok) =>
         /\ vblank = arg
         /\ exposure_max(vblank) = arg - 12
    /\ (op = "set_exposure_gain" /\ arg > vblank - 12) =>
         /\ ~(ret.kind = "OutOfRange" /\ ret.x = arg)
         /\ (Len(trace) = 4 /\ \A i \in 1..4 : trace[i].ok) =>
              /\ ret = Ok
              /\ exposure = vblank - 12
              /\ trace[2].val = vblank - 12

C8_Witness ==
  /\ op = "set_exposure_gain"
  /\ vblank = 151
  /\ arg = 140
  /\ ret = Ok
  /\ exposure = 139

(* C9: every mode of the catalog has vblank_min <= vblank default <=      *)
(* vblank_max, and the sensor's vblank, which probe sets to the active    *)
(* mode's default, lies in the active mode's range whenever a mode is     *)
(* active.                                                                *)
C9_VblankInRange ==
  /\ \A k \in DOMAIN ModeCatalog :
       /\ ModeCatalog[k].vblank_min <= ModeCatalog[k].vblank
       /\ ModeCatalog[k].vblank <= ModeCatalog[k].vblank_max
  /\ cur_mode # "NULL" =>
       /\ vblank >= Mode(cur_mode).vblank_min
       /\ vblank <= Mode(cur_mode).vblank_max
  /\ (op = "probe" /\ ret = Ok) => vblank = 1022

C9_Witness ==
  /\ op = "probe"
  /\ ret = Ok
  /\ bound
  /\ cur_mode = "supported_mode"
  /\ vblank = 1022

(* C10: clock enables and disables stay balanced over probe, runtime      *)
(* suspend/resume and remove: a probe failing at power_on never calls     *)
(* power_off, a probe failing at a later step calls it once and returns   *)
(* the original error, remove calls it only when the device is not        *)
(* runtime-suspended; the clock is never disabled while disabled and is   *)
(* disabled after a failed probe or after remove.                         *)
C10_ClockBalanced ==
  /\ \A i \in 1..Len(trace) : IsDisable(trace[i]) => trace[i].ok
  /\ inclk \in {0, 1}
  /\ ~bound => inclk = 0
  /\ bound => (inclk = 1 <=> pm_status = "active")
  /\ (op = "probe" /\ fail_step = "power_on") =>
       Disables(trace) = 0 /\ ret.x \in ClkRets \ {0}
  /\ (op = "probe" /\ fail_step = "detect") =>
       Disables(trace) = 1 /\ ret.x \in {-6, -5}
  /\ (op = "probe" /\ fail_step = "init_controls") =>
       Disables(trace) = 1 /\ ret.x \in CtrlRets \ {0}
  /\ (op = "probe" /\ fail_step = "pads_init") =>
       Disables(trace) = 1 /\ ret.x \in PadsRets \ {0}
  /\ (op = "probe" /\ fail_step = "async_register") =>
       Disables(trace) = 1 /\ ret.x \in AsyncRets \ {0}
  /\ (op = "probe" /\ ret # Ok) => ~bound
  /\ op = "remove" =>
       Disables(trace) = IF prev_pm = "suspended" THEN 0 ELSE 1

C10_Witness ==
  /\ op = "probe"
  /\ fail_step = "async_register"
  /\ Disables(trace) = 1
  /\ inclk = 0
  /\ ~bound

====
